---- MODULE Spec2Model ----
(***************************************************************************)
(* Versioned configuration store (config-manager).                         *)
(*                                                                         *)
(* The model follows src/src/storage/sqlite_store.go statement by          *)
(* statement: every SQL statement and every Commit is one step of the      *)
(* request that issues it, so that concurrent requests interleave between  *)
(* statements exactly as goroutines on separate pooled connections do.     *)
(*                                                                         *)
(* The relational engine is SQLite as opened by cmd/server/main.go         *)
(* (sql.Open("sqlite3", path), no DSN options): rollback-journal mode,     *)
(* deferred transactions, foreign keys not enforced.  Its locks are        *)
(* modelled as follows.                                                    *)
(*   - a transaction takes the SHARED lock at its first SELECT and keeps   *)
(*     it until it ends;                                                   *)
(*   - the first INSERT/UPDATE takes the RESERVED lock; one connection at  *)
(*     most holds it.  A connection that holds no lock yet waits for it    *)
(*     (busy handler), a connection that already holds SHARED gets         *)
(*     SQLITE_BUSY at once;                                                *)
(*   - uncommitted writes are private to the writer; Commit needs every    *)
(*     other connection to have dropped SHARED and publishes the writes    *)
(*     in one step;                                                        *)
(*   - a statement outside a transaction reads the committed tables.       *)
(***************************************************************************)
EXTENDS Integers, FiniteSets, Sequences, TLC

(***************************************************************************)
(* Bounds of the model.                                                    *)
(***************************************************************************)
MaxOps == 4

Procs == {"p1", "p2"}
Names == {"app", "web"}
\* the readings of the clock
Times == {1, 2}

(***************************************************************************)
(* Names.  A name is a string; Chars gives the code points it is made of.  *)
(***************************************************************************)
LongName ==
    "aaaaaaaaaaaaaaaaaaaaaaaaaaaaaaaaaaaaaaaaaaaaaaaaaaaaaaaaaaaaaaaaaaaaaaaaaaaaaaaaaaaaaaaaaaaaaaaaaaaaa"
\* names a create is refused for: the absent name, names with a character
\* outside [a-zA-Z0-9_-] and a name of 101 characters
BadNames == {"", "a b", "app/1", LongName}
\* names of other shapes that pass the check
OddNames == {"A-z_09"}

Chars(n) ==
    CASE n = "app" -> <<97, 112, 112>>
      [] n = "web" -> <<119, 101, 98>>
      [] n = "" -> <<>>
      [] n = "a b" -> <<97, 32, 98>>
      [] n = "app/1" -> <<97, 112, 112, 47, 49>>
      [] n = "A-z_09" -> <<65, 45, 122, 95, 48, 57>>
      [] n = LongName -> [i \in 1..101 |-> 97]

\* len(name), in bytes: the names here are ASCII, one byte per character
ByteLen(cs) == Len(cs)

\* a check that lets every character through
isValidConfigNameOfAnyChars(cs) == ~(ByteLen(cs) = 0 \/ ByteLen(cs) > 100)

\* isValidConfigName
isValidConfigName(cs) ==
    IF ByteLen(cs) = 0 \/ ByteLen(cs) > 100
    THEN FALSE
    ELSE \A i \in 1..Len(cs) :
             ~ /\ (cs[i] < 97 \/ cs[i] > 122)
               /\ (cs[i] < 65 \/ cs[i] > 90)
               /\ (cs[i] < 48 \/ cs[i] > 57)
               /\ cs[i] # 95 /\ cs[i] # 45

(***************************************************************************)
(* JSON documents.  A document is its type and, for an object, the set of  *)
(* its members; a payload is stored verbatim, so a stored json_data is the *)
(* document itself.                                                        *)
(***************************************************************************)
JInt(k, n) == [key |-> k, type |-> "integer", num |-> n, bool |-> FALSE, fits |-> TRUE]
JBool(k, b) == [key |-> k, type |-> "boolean", num |-> 0, bool |-> b, fits |-> TRUE]
JStr(k) == [key |-> k, type |-> "string", num |-> 0, bool |-> FALSE, fits |-> TRUE]
\* a positive integer that does not fit Go's int, such as 9223372036854775808
\* (its value is not used; fits tells it from the others)
JBigInt(k) == [key |-> k, type |-> "integer", num |-> 0, bool |-> FALSE, fits |-> FALSE]
\* the integer n written with a fraction or an exponent, such as 1000.0 or
\* 1e3: an integer for the validator, which tests the value, and not a text
\* that encoding/json decodes into an int
JIntAsDecimal(k, n) == [key |-> k, type |-> "integer", num |-> n, bool |-> FALSE, fits |-> FALSE]
JObject(ms) == [type |-> "object", members |-> ms]
\* the absent data member of a body (an empty json.RawMessage)
NoDoc == [type |-> "none", members |-> {}]
\* a body that c.Bind cannot decode
MalformedBody == [type |-> "malformed", members |-> {}]

ValidPayloads ==
    { JObject({JInt("max_limit", 1000), JBool("enabled", TRUE)}),
      JObject({JInt("max_limit", 2000), JBool("enabled", FALSE)}) }

InvalidPayloads ==
    { JObject({JInt("max_limit", 1000)}),
      JObject({JStr("max_limit"), JBool("enabled", TRUE)}) }

Payloads == ValidPayloads \cup InvalidPayloads

\* a payload whose max_limit is an integer beyond Go's int
BigPayloads == { JObject({JBigInt("max_limit"), JBool("enabled", TRUE)}) }

\* a payload whose max_limit is an integer in non-integer notation
DecimalPayloads == { JObject({JIntAsDecimal("max_limit", 1000), JBool("enabled", TRUE)}) }

\* a number with a fraction: n + 1/2 (1.5 for n = 1, -1.5 for n = -2)
JNum(k, n) == [key |-> k, type |-> "number", num |-> n, bool |-> FALSE, fits |-> TRUE]

\* the documents a validator is given: every object of at most one max_limit,
\* one enabled and one other member, and documents that are no objects
MaxLimitMembers ==
    {JInt("max_limit", 0), JInt("max_limit", 1000), JInt("max_limit", -1),
     JBigInt("max_limit"), JNum("max_limit", 1), JNum("max_limit", -2),
     JStr("max_limit")}
EnabledMembers == {JBool("enabled", TRUE), JStr("enabled")}
OtherMembers == {JStr("extra")}
NoneOrOne(S) == {{}} \cup {{m} : m \in S}
Objects ==
    {JObject(a \cup b \cup c) :
        a \in NoneOrOne(MaxLimitMembers), b \in NoneOrOne(EnabledMembers),
        c \in NoneOrOne(OtherMembers)}
NonObjects == {[type |-> t, members |-> {}] : t \in {"array", "string", "null"}}
Docs == Objects \cup NonObjects

Keys(doc) == {m.key : m \in doc.members}
Member(doc, k) == CHOOSE m \in doc.members : m.key = k

\* a schema without "additionalProperties": false
SchemaErrorsAdditionalAllowed(doc) ==
    IF doc.type # "object"
    THEN {<<"(root)", "invalid_type", "">>}
    ELSE {<<"(root)", "required", k>> : k \in {"max_limit", "enabled"} \ Keys(doc)}
         \cup (IF "max_limit" \in Keys(doc)
               THEN IF Member(doc, "max_limit").type # "integer"
                    THEN {<<"max_limit", "invalid_type", "max_limit">>}
                    ELSE IF Member(doc, "max_limit").num < 0
                         THEN {<<"max_limit", "number_gte", "max_limit">>}
                         ELSE {}
               ELSE {})
         \cup (IF "enabled" \in Keys(doc)
                  /\ Member(doc, "enabled").type # "boolean"
               THEN {<<"enabled", "invalid_type", "enabled">>}
               ELSE {})

\* a schema without "required"
SchemaErrorsNothingRequired(doc) ==
    IF doc.type # "object"
    THEN {<<"(root)", "invalid_type", "">>}
    ELSE {<<"(root)", "additional_property_not_allowed", k>> :
              k \in Keys(doc) \ {"max_limit", "enabled"}}
         \cup (IF "max_limit" \in Keys(doc)
                  /\ Member(doc, "max_limit").type # "integer"
               THEN {<<"max_limit", "invalid_type", "max_limit">>}
               ELSE {})

(***************************************************************************)
(* ConfigDataSchema: the violations of the fixed schema, one entry         *)
(* <<field, description, property>> per violated constraint.               *)
(***************************************************************************)
SchemaErrors(doc) ==
    IF doc.type # "object"
    THEN {<<"(root)", "invalid_type", "">>}
    ELSE {<<"(root)", "required", k>> : k \in {"max_limit", "enabled"} \ Keys(doc)}
         \cup {<<"(root)", "additional_property_not_allowed", k>> :
                   k \in Keys(doc) \ {"max_limit", "enabled"}}
         \cup (IF "max_limit" \in Keys(doc)
               THEN IF Member(doc, "max_limit").type # "integer"
                    THEN {<<"max_limit", "invalid_type", "max_limit">>}
                    ELSE IF Member(doc, "max_limit").num < 0
                         THEN {<<"max_limit", "number_gte", "max_limit">>}
                         ELSE {}
               ELSE {})
         \cup (IF "enabled" \in Keys(doc)
                  /\ Member(doc, "enabled").type # "boolean"
               THEN {<<"enabled", "invalid_type", "enabled">>}
               ELSE {})

\* ValidationService.ValidateConfigData: the error it returns, "" for nil.
ValidateConfigData(doc) ==
    IF doc.type = "none" THEN "schema validation error"
    ELSE IF SchemaErrors(doc) # {} THEN "SchemaValidationFailed"
    ELSE ""

\* a validator that reports one violation only
ValidationErrorsFirstOnly(doc) ==
    IF doc.type = "none" \/ SchemaErrors(doc) = {} THEN {}
    ELSE {CHOOSE e \in SchemaErrors(doc) : TRUE}

\* SchemaValidationError.Errors: one ValidationError per entry of result.Errors()
ValidationErrors(doc) ==
    IF doc.type = "none" THEN {} ELSE SchemaErrors(doc)

(***************************************************************************)
(* State.                                                                  *)
(*   configurations, versions      the committed tables                    *)
(*   txConfigurations, txVersions  the tables as the connection holding    *)
(*                                 the RESERVED lock sees them (its        *)
(*                                 uncommitted writes applied); equal to   *)
(*                                 the committed tables when nobody writes *)
(*   lock[p]                       the SQLite lock of p's connection       *)
(*   pc[p], req[p], loc[p]         the statement p's request is at, the    *)
(*                                 request p is serving, the local         *)
(*                                 variables of the store method           *)
(*   result[p]                     what p's last request returned          *)
(*   clock                         the latest time any request has read    *)
(*   ops                           number of requests started              *)
(***************************************************************************)
VARIABLES configurations, versions, txConfigurations, txVersions, lock,
          pc, req, loc, result, clock, ops

vars == <<configurations, versions, txConfigurations, txVersions, lock,
          pc, req, loc, result, clock, ops>>

tables == <<configurations, versions>>

Targets == 0..MaxOps

NoConfig == [name |-> "", current_version |-> 0, created_at |-> 0, updated_at |-> 0]
NoReq == [op |-> "none", name |-> "", data |-> NoDoc, target |-> 0]
NoLocals == [currentVersion |-> 0, now |-> 0, targetJsonData |-> NoDoc, createdAt |-> 0]
\* models.ConfigurationData and models.VersionList, the data of a read's answer
NoBody == [kind |-> "none"]
NoResult ==
    [op |-> "none", err |-> "", status |-> 0, code |-> "", config |-> NoConfig,
     body |-> NoBody]

\* models.Configuration and a row of table versions
Configuration(n, v, c, u) ==
    [name |-> n, current_version |-> v, created_at |-> c, updated_at |-> u]
Version(n, v, d, c) ==
    [configuration_name |-> n, version_number |-> v, json_data |-> d, created_at |-> c]

(***************************************************************************)
(* The schema: rows selected by key, and the two uniqueness constraints.   *)
(***************************************************************************)
ConfigurationRows(tbl, n) == {c \in tbl : c.name = n}
VersionRows(tbl, n, v) ==
    {r \in tbl : r.configuration_name = n /\ r.version_number = v}
VersionsOf(tbl, n) == {r \in tbl : r.configuration_name = n}

\* configurations.name PRIMARY KEY
PrimaryKeyMissing(tbl, n) == TRUE

PrimaryKeyFree(tbl, n) == ConfigurationRows(tbl, n) = {}
\* a versions table without its UNIQUE constraint
UniqueVersionUnchecked(tbl, n, v) == TRUE
\* versions UNIQUE(configuration_name, version_number)
UniqueVersionFree(tbl, n, v) == VersionRows(tbl, n, v) = {}

\* the engine's error for INSERT INTO configurations with name n, "" for none
InsertConfigurationError(tbl, n) ==
    IF PrimaryKeyFree(tbl, n) THEN "" ELSE "UNIQUE constraint failed: configurations.name"

\* isUniqueConstraintError
isUniqueConstraintErrorOfVersions(err) ==
    err \in {"UNIQUE constraint failed: versions.configuration_name, versions.version_number"}

isUniqueConstraintError(err) ==
    err \in {"UNIQUE constraint failed: configurations.name",
             "constraint failed: UNIQUE constraint failed: configurations.name"}

\* a mapping that answers an unrecognized error as not found
handleErrorDefaultNotFound(err) ==
    CASE err = "ConfigAlreadyExists" -> [status |-> 409, code |-> "CONFIG_ALREADY_EXISTS"]
      [] err = "VersionNotFound" -> [status |-> 404, code |-> "VERSION_NOT_FOUND"]
      [] err = "SchemaValidationFailed" ->
             [status |-> 422, code |-> "SCHEMA_VALIDATION_FAILED"]
      [] OTHER -> [status |-> 404, code |-> "CONFIG_NOT_FOUND"]

\* ConfigHandler.handleError: the status and code an error is answered with
handleError(err) ==
    CASE err = "ConfigAlreadyExists" -> [status |-> 409, code |-> "CONFIG_ALREADY_EXISTS"]
      [] err = "ConfigNotFound" -> [status |-> 404, code |-> "CONFIG_NOT_FOUND"]
      [] err = "VersionNotFound" -> [status |-> 404, code |-> "VERSION_NOT_FOUND"]
      [] err = "SchemaValidationFailed" ->
             [status |-> 422, code |-> "SCHEMA_VALIDATION_FAILED"]
      [] OTHER -> [status |-> 500, code |-> "INTERNAL_SERVER_ERROR"]

\* the code of the 400 a handler answers an error of kind err with
BadRequestCode(err) ==
    CASE err = "MalformedRequestBody" -> "INVALID_REQUEST_FORMAT"
      [] err = "MissingRequiredField" -> "MISSING_REQUIRED_FIELD"
      [] err = "InvalidConfigName" -> "INVALID_CONFIG_NAME"
      [] err = "InvalidVersionNumber" -> "INVALID_VERSION_NUMBER"

\* the status of a successful answer: 201 Created for a create, 200 OK otherwise
StatusOfSuccess(op) == IF op = "create" THEN 201 ELSE 200

\* INSERT INTO versions (...) VALUES (...)
InsertVersionOverwriting(tbl, row) ==
    {[r EXCEPT !.json_data = IF r.configuration_name = row.configuration_name
                             THEN row.json_data ELSE @] : r \in tbl} \cup {row}

InsertVersion(tbl, row) == tbl \cup {row}
\* INSERT INTO configurations (...) VALUES (...)
InsertConfiguration(tbl, row) == tbl \cup {row}
\* UPDATE configurations SET current_version = ?, updated_at = ? WHERE name = ?
SetCurrentVersionSkipped(tbl, n, v, now) == tbl

\* an UPDATE without its WHERE clause
SetCurrentVersionOfEveryName(tbl, n, v, now) ==
    {[c EXCEPT !.current_version = v, !.updated_at = now] : c \in tbl}

\* an UPDATE that also sets created_at
SetCurrentVersionAndCreatedAt(tbl, n, v, now) ==
    {IF c.name = n
     THEN [c EXCEPT !.current_version = v, !.updated_at = now, !.created_at = now]
     ELSE c : c \in tbl}

SetCurrentVersion(tbl, n, v, now) ==
    {IF c.name = n THEN [c EXCEPT !.current_version = v, !.updated_at = now] ELSE c :
        c \in tbl}

(***************************************************************************)
(* Reads.                                                                  *)
(***************************************************************************)
\* json.Unmarshal of a stored json_data into models.ConfigData fails
UnmarshalFails(doc) ==
    \/ doc.type # "object"
    \/ \E m \in doc.members : m.key = "max_limit" /\ (m.type # "integer" \/ ~m.fits)
    \/ \E m \in doc.members : m.key = "enabled" /\ m.type # "boolean"

\* models.ConfigData: a member the document lacks keeps its zero value
ConfigData(doc) ==
    [max_limit |-> IF "max_limit" \in Keys(doc) THEN Member(doc, "max_limit").num ELSE 0,
     enabled |-> IF "enabled" \in Keys(doc) THEN Member(doc, "enabled").bool ELSE FALSE]

ConfigurationData(n, v, d, c) ==
    [kind |-> "ConfigurationData", name |-> n, version |-> v, config_data |-> d,
     created_at |-> c]
VersionInfo(v, c) == [version |-> v, created_at |-> c]
VersionList(n, v, vs) ==
    [kind |-> "VersionList", name |-> n, current_version |-> v, versions |-> vs]
\* services.SchemaValidationError, the details of a 422
SchemaValidationError(errors) ==
    [kind |-> "SchemaValidationError", validation_errors |-> errors]
\* what the validator's error for doc carries
ValidationDetails(doc) ==
    IF ValidateConfigData(doc) = "SchemaValidationFailed"
    THEN SchemaValidationError(ValidationErrors(doc))
    ELSE NoBody

\* FROM configurations c JOIN versions v ON c.name = v.configuration_name AND
\* c.current_version = v.version_number WHERE c.name = ?
LatestRows(cfgs, vers, n) ==
    {cv \in cfgs \X vers :
        /\ cv[1].name = n
        /\ cv[1].name = cv[2].configuration_name
        /\ cv[1].current_version = cv[2].version_number}

\* ORDER BY version_number ASC
RECURSIVE OrderByVersionNumberAsc(_)
OrderByVersionNumberAsc(rows) ==
    IF rows = {} THEN <<>>
    ELSE LET first == CHOOSE r \in rows :
                          \A o \in rows : o.version_number >= r.version_number
         IN <<first>> \o OrderByVersionNumberAsc(rows \ {first})

\* ORDER BY version_number DESC
RECURSIVE OrderByVersionNumberDesc(_)
OrderByVersionNumberDesc(rows) ==
    IF rows = {} THEN <<>>
    ELSE LET first == CHOOSE r \in rows :
                          \A o \in rows : o.version_number <= r.version_number
         IN <<first>> \o OrderByVersionNumberDesc(rows \ {first})

\* ConfigService.ListVersions: the VersionInfo of every row, in the rows' order
VersionInfos(rows) ==
    [i \in 1..Len(rows) |-> VersionInfo(rows[i].version_number, rows[i].created_at)]

(***************************************************************************)
(* Locks.                                                                  *)
(***************************************************************************)
\* the RESERVED lock is free for p
CanWrite(p) == \A q \in Procs \ {p} : lock[q] # "reserved"
\* the EXCLUSIVE lock of Commit: nobody else holds SHARED
CanCommit(p) == \A q \in Procs \ {p} : lock[q] = "none"

\* time.Now(): the clock never runs backwards
Now == {t \in Times : t >= clock}

\* the tables as p's connection reads them
ViewConfigurations(p) == IF lock[p] = "reserved" THEN txConfigurations ELSE configurations
ViewVersions(p) == IF lock[p] = "reserved" THEN txVersions ELSE versions

TypeOK ==
    /\ \A p \in Procs : lock[p] \in {"none", "shared", "reserved"}
    /\ Cardinality({p \in Procs : lock[p] = "reserved"}) <= 1
    /\ clock \in Times
    /\ ops \in 0..MaxOps
    /\ (\A p \in Procs : lock[p] # "reserved") =>
           txConfigurations = configurations /\ txVersions = versions

Init ==
    /\ configurations = {}
    /\ versions = {}
    /\ txConfigurations = {}
    /\ txVersions = {}
    /\ lock = [p \in Procs |-> "none"]
    /\ pc = [p \in Procs |-> "idle"]
    /\ req = [p \in Procs |-> NoReq]
    /\ loc = [p \in Procs |-> NoLocals]
    /\ result = [p \in Procs |-> NoResult]
    /\ clock = 1
    /\ ops = 0

(***************************************************************************)
(* Building blocks of a step.                                              *)
(***************************************************************************)
\* a request arrives and is handed to p
Begin(p) ==
    /\ pc[p] = "idle"
    /\ ops < MaxOps
    /\ ops' = ops + 1

\* p's request r passed the checks made on entry; p goes on to its first statement
Accept(p, r, next, locals) ==
    /\ req' = [req EXCEPT ![p] = r]
    /\ pc' = [pc EXCEPT ![p] = next]
    /\ loc' = [loc EXCEPT ![p] = locals]
    /\ result' = [result EXCEPT ![p] = NoResult]

\* the handler answers p's request itself, with 400 and the code of kind err
Refuse(p, op, err) ==
    /\ result' = [result EXCEPT ![p] =
                      [op |-> op, err |-> err, status |-> 400, code |-> BadRequestCode(err),
                       config |-> NoConfig, body |-> NoBody]]
    /\ UNCHANGED <<req, pc, loc>>

\* p's request fails with err, which carries details, in the step in which it
\* arrives
RejectWith(p, op, err, details) ==
    /\ result' = [result EXCEPT ![p] =
                      [op |-> op, err |-> err, status |-> handleError(err).status,
                       code |-> handleError(err).code, config |-> NoConfig,
                       body |-> details]]
    /\ UNCHANGED <<req, pc, loc>>

\* p's request fails with err in the step in which it arrives
Reject(p, op, err) == RejectWith(p, op, err, NoBody)

\* p's read is answered 200 with body in the step in which it arrives
Respond(p, op, body) ==
    /\ result' = [result EXCEPT ![p] =
                      [op |-> op, err |-> "", status |-> StatusOfSuccess(op), code |-> "",
                       config |-> NoConfig, body |-> body]]
    /\ UNCHANGED <<req, pc, loc>>

\* p's request goes on to its next statement
Goto(p, next, locals) ==
    /\ pc' = [pc EXCEPT ![p] = next]
    /\ loc' = [loc EXCEPT ![p] = locals]
    /\ UNCHANGED <<req, result, ops>>

\* p's request returns (config, body, err) and the handler answers it
Answer(p, err, config, body) ==
    /\ pc' = [pc EXCEPT ![p] = "idle"]
    /\ loc' = [loc EXCEPT ![p] = NoLocals]
    /\ req' = [req EXCEPT ![p] = NoReq]
    /\ result' = [result EXCEPT ![p] =
                      [op |-> req[p].op, err |-> err,
                       status |-> IF err = "" THEN StatusOfSuccess(req[p].op)
                                  ELSE handleError(err).status,
                       code |-> IF err = "" THEN "" ELSE handleError(err).code,
                       config |-> config, body |-> body]]
    /\ UNCHANGED ops

\* p's create, update or rollback returns (config, err)
Return(p, err, config) == Answer(p, err, config, NoBody)

\* no statement of a transaction is executed in this step
NoTx == UNCHANGED <<lock, txConfigurations, txVersions, configurations, versions>>

\* a rollback that leaves p's writes in the tables
TxRollbackKeepsWrites(p) ==
    /\ lock' = [lock EXCEPT ![p] = "none"]
    /\ configurations' = ViewConfigurations(p)
    /\ versions' = ViewVersions(p)
    /\ txConfigurations' = ViewConfigurations(p)
    /\ txVersions' = ViewVersions(p)

\* a method that returns without ending its transaction
TxLeftOpen(p) == UNCHANGED <<lock, txConfigurations, txVersions, configurations, versions>>

\* the deferred tx.Rollback(): p's uncommitted writes are dropped, its locks released
TxRollback(p) ==
    /\ lock' = [lock EXCEPT ![p] = "none"]
    /\ IF lock[p] = "reserved"
       THEN txConfigurations' = configurations /\ txVersions' = versions
       ELSE UNCHANGED <<txConfigurations, txVersions>>
    /\ UNCHANGED tables

\* tx.Commit(): p's writes become the committed tables, its locks are released
TxCommit(p) ==
    /\ CanCommit(p)
    /\ configurations' = ViewConfigurations(p)
    /\ versions' = ViewVersions(p)
    /\ txConfigurations' = ViewConfigurations(p)
    /\ txVersions' = ViewVersions(p)
    /\ lock' = [lock EXCEPT ![p] = "none"]

\* p's statement wrote: p holds RESERVED and the writer's tables are cfgs, vers
TxWrite(p, cfgs, vers) ==
    /\ lock' = [lock EXCEPT ![p] = "reserved"]
    /\ txConfigurations' = cfgs
    /\ txVersions' = vers
    /\ UNCHANGED tables

\* newVersion := currentVersion + 1
NewVersionSkipsOne(p) == loc[p].currentVersion + 2

NewVersion(p) == loc[p].currentVersion + 1

(***************************************************************************)
(* ConfigService.CreateConfig -> SQLiteStore.CreateConfiguration           *)
(***************************************************************************)
\* a create that looks the name up in the store before it validates
CreateConfigStoreFirst(p, n, d) ==
    /\ Begin(p)
    /\ IF d = MalformedBody
       THEN Refuse(p, "create", "MalformedRequestBody") /\ UNCHANGED clock
       ELSE IF n = ""
       THEN Refuse(p, "create", "MissingRequiredField") /\ UNCHANGED clock
       ELSE IF ~isValidConfigName(Chars(n))
       THEN Refuse(p, "create", "InvalidConfigName") /\ UNCHANGED clock
       ELSE IF ~PrimaryKeyFree(configurations, n)
       THEN Reject(p, "create", "ConfigAlreadyExists") /\ UNCHANGED clock
       ELSE IF ValidateConfigData(d) # ""
       THEN RejectWith(p, "create", ValidateConfigData(d), ValidationDetails(d))
            /\ UNCHANGED clock
       ELSE \E t \in Now :
                /\ Accept(p, [op |-> "create", name |-> n, data |-> d, target |-> 0],
                          "create_insert_configuration", [NoLocals EXCEPT !.now = t])
                /\ clock' = t
    /\ NoTx

CreateConfig(p, n, d) ==
    /\ Begin(p)
    /\ IF d = MalformedBody
       THEN Refuse(p, "create", "MalformedRequestBody") /\ UNCHANGED clock
       ELSE IF n = ""
       THEN Refuse(p, "create", "MissingRequiredField") /\ UNCHANGED clock
       ELSE IF ~isValidConfigName(Chars(n))
       THEN Refuse(p, "create", "InvalidConfigName") /\ UNCHANGED clock
       ELSE IF ValidateConfigData(d) # ""
       THEN RejectWith(p, "create", ValidateConfigData(d), ValidationDetails(d))
            /\ UNCHANGED clock
       ELSE \E t \in Now :
                /\ Accept(p, [op |-> "create", name |-> n, data |-> d, target |-> 0],
                          "create_insert_configuration", [NoLocals EXCEPT !.now = t])
                /\ clock' = t
    /\ NoTx

CreateInsertConfiguration(p) ==
    /\ pc[p] = "create_insert_configuration"
    /\ CanWrite(p)
    /\ IF InsertConfigurationError(ViewConfigurations(p), req[p].name) # ""
       THEN /\ Return(p, IF isUniqueConstraintError(
                                InsertConfigurationError(ViewConfigurations(p), req[p].name))
                         THEN "ConfigAlreadyExists"
                         ELSE "failed to insert configuration", NoConfig)
            /\ TxRollback(p)
       ELSE /\ Goto(p, "create_insert_version", loc[p])
            /\ TxWrite(p, InsertConfiguration(ViewConfigurations(p),
                              Configuration(req[p].name, 1, loc[p].now, loc[p].now)),
                          ViewVersions(p))
    /\ UNCHANGED clock

CreateInsertVersion(p) ==
    /\ pc[p] = "create_insert_version"
    /\ IF ~UniqueVersionFree(ViewVersions(p), req[p].name, 1)
       THEN Return(p, "failed to insert version", NoConfig) /\ TxRollback(p)
       ELSE /\ Goto(p, "create_commit", loc[p])
            /\ TxWrite(p, ViewConfigurations(p),
                          InsertVersion(ViewVersions(p),
                              Version(req[p].name, 1, req[p].data, loc[p].now)))
    /\ UNCHANGED clock

CreateCommit(p) ==
    /\ pc[p] = "create_commit"
    /\ TxCommit(p)
    /\ Return(p, "", Configuration(req[p].name, 1, loc[p].now, loc[p].now))
    /\ UNCHANGED clock

(***************************************************************************)
(* ConfigService.UpdateConfig -> SQLiteStore.UpdateConfiguration           *)
(***************************************************************************)
\* an update that hands its payload to the store without validating it
UpdateConfigUnvalidated(p, n, d) ==
    /\ Begin(p)
    /\ IF d = MalformedBody
       THEN Refuse(p, "update", "MalformedRequestBody")
       ELSE Accept(p, [op |-> "update", name |-> n, data |-> d, target |-> 0],
                   "update_select", NoLocals)
    /\ NoTx
    /\ UNCHANGED clock

UpdateConfig(p, n, d) ==
    /\ Begin(p)
    /\ IF d = MalformedBody
       THEN Refuse(p, "update", "MalformedRequestBody")
       ELSE IF ValidateConfigData(d) # ""
       THEN RejectWith(p, "update", ValidateConfigData(d), ValidationDetails(d))
       ELSE Accept(p, [op |-> "update", name |-> n, data |-> d, target |-> 0],
                   "update_select", NoLocals)
    /\ NoTx
    /\ UNCHANGED clock

\* an update that goes on from version 0 when the name has no configuration
UpdateSelectCurrentVersionOrZero(p) ==
    /\ pc[p] = "update_select"
    /\ LET rows == ConfigurationRows(configurations, req[p].name)
       IN \E t \in Now :
              /\ Goto(p, "update_insert_version",
                      [NoLocals EXCEPT
                          !.currentVersion = IF rows = {} THEN 0
                                             ELSE (CHOOSE c \in rows : TRUE).current_version,
                          !.now = t])
              /\ clock' = t
    /\ NoTx

\* SELECT current_version ... on the pool, before the transaction begins
UpdateSelectCurrentVersion(p) ==
    /\ pc[p] = "update_select"
    /\ LET rows == ConfigurationRows(configurations, req[p].name)
       IN IF rows = {}
          THEN Return(p, "ConfigNotFound", NoConfig) /\ UNCHANGED clock
          ELSE \E t \in Now :
                   /\ Goto(p, "update_insert_version",
                           [NoLocals EXCEPT
                               !.currentVersion = (CHOOSE c \in rows : TRUE).current_version,
                               !.now = t])
                   /\ clock' = t
    /\ NoTx

UpdateInsertVersion(p) ==
    /\ pc[p] = "update_insert_version"
    /\ CanWrite(p)
    /\ IF ~UniqueVersionFree(ViewVersions(p), req[p].name, NewVersion(p))
       THEN Return(p, "failed to insert new version", NoConfig) /\ TxRollback(p)
       ELSE /\ Goto(p, "update_set_current_version", loc[p])
            /\ TxWrite(p, ViewConfigurations(p),
                          InsertVersion(ViewVersions(p),
                              Version(req[p].name, NewVersion(p), req[p].data, loc[p].now)))
    /\ UNCHANGED clock

UpdateSetCurrentVersion(p) ==
    /\ pc[p] = "update_set_current_version"
    /\ Goto(p, "update_commit", loc[p])
    /\ TxWrite(p, SetCurrentVersion(ViewConfigurations(p), req[p].name,
                                    NewVersion(p), loc[p].now),
                  ViewVersions(p))
    /\ UNCHANGED clock

UpdateCommit(p) ==
    /\ pc[p] = "update_commit"
    /\ TxCommit(p)
    /\ Return(p, "", Configuration(req[p].name, NewVersion(p),
                                   loc[p].now, loc[p].now))
    /\ UNCHANGED clock

(***************************************************************************)
(* ConfigService.RollbackConfig -> SQLiteStore.RollbackConfiguration       *)
(***************************************************************************)
\* a handler without the check of target_version
RollbackConfigUnchecked(p, n, t) ==
    /\ Begin(p)
    /\ IF t < 1
       THEN Reject(p, "rollback",
                   "INVALID_VERSION_NUMBER: Version number must be positive integer")
       ELSE Accept(p, [op |-> "rollback", name |-> n, data |-> NoDoc, target |-> t],
                   "rollback_select_version", NoLocals)
    /\ NoTx
    /\ UNCHANGED clock

\* ConfigService.RollbackConfig, called with any target
ServiceRollbackConfig(p, n, t) ==
    /\ Begin(p)
    /\ IF t < 1
       THEN Reject(p, "rollback",
                   "INVALID_VERSION_NUMBER: Version number must be positive integer")
       ELSE Accept(p, [op |-> "rollback", name |-> n, data |-> NoDoc, target |-> t],
                   "rollback_select_version", NoLocals)
    /\ NoTx
    /\ UNCHANGED clock

\* ConfigHandler.RollbackConfig: the handler's check, then the service
RollbackConfig(p, n, t) ==
    IF t < 1
    THEN /\ Begin(p)
         /\ Refuse(p, "rollback", "InvalidVersionNumber")
         /\ NoTx
         /\ UNCHANGED clock
    ELSE ServiceRollbackConfig(p, n, t)

\* a rollback that looks up the configuration before the target version
RollbackSelectVersionAfterConfiguration(p) ==
    /\ pc[p] = "rollback_select_version"
    /\ LET rows == VersionRows(ViewVersions(p), req[p].name, req[p].target)
       IN IF ConfigurationRows(ViewConfigurations(p), req[p].name) = {}
          THEN Return(p, "ConfigNotFound", NoConfig) /\ TxRollback(p)
          ELSE IF rows = {}
          THEN Return(p, "VersionNotFound", NoConfig) /\ TxRollback(p)
          ELSE /\ Goto(p, "rollback_select_configuration",
                       [NoLocals EXCEPT
                           !.targetJsonData = (CHOOSE r \in rows : TRUE).json_data])
               /\ lock' = [lock EXCEPT ![p] = "shared"]
               /\ UNCHANGED <<txConfigurations, txVersions, configurations, versions>>
    /\ UNCHANGED clock

\* 1. SELECT json_data FROM versions ...: the transaction's first read
RollbackSelectVersion(p) ==
    /\ pc[p] = "rollback_select_version"
    /\ LET rows == VersionRows(ViewVersions(p), req[p].name, req[p].target)
       IN IF rows = {}
          THEN Return(p, "VersionNotFound", NoConfig) /\ TxRollback(p)
          ELSE /\ Goto(p, "rollback_select_configuration",
                       [NoLocals EXCEPT
                           !.targetJsonData = (CHOOSE r \in rows : TRUE).json_data])
               /\ lock' = [lock EXCEPT ![p] = "shared"]
               /\ UNCHANGED <<txConfigurations, txVersions, configurations, versions>>
    /\ UNCHANGED clock

\* 2. SELECT current_version, created_at FROM configurations ...
RollbackSelectConfiguration(p) ==
    /\ pc[p] = "rollback_select_configuration"
    /\ LET rows == ConfigurationRows(ViewConfigurations(p), req[p].name)
       IN IF rows = {}
          THEN Return(p, "ConfigNotFound", NoConfig) /\ TxRollback(p) /\ UNCHANGED clock
          ELSE \E t \in Now :
                   /\ Goto(p, "rollback_insert_version",
                           [loc[p] EXCEPT
                               !.currentVersion = (CHOOSE c \in rows : TRUE).current_version,
                               !.createdAt = (CHOOSE c \in rows : TRUE).created_at,
                               !.now = t])
                   /\ clock' = t
                   /\ NoTx

\* the row a rollback inserts: the new version with the target's json_data
RollbackVersionOfCurrent(p) ==
    Version(req[p].name, NewVersion(p),
            (CHOOSE r \in VersionRows(ViewVersions(p), req[p].name, loc[p].currentVersion) :
                 TRUE).json_data,
            loc[p].now)

RollbackVersion(p) ==
    Version(req[p].name, NewVersion(p), loc[p].targetJsonData, loc[p].now)

\* 3. INSERT INTO versions ...: SHARED is upgraded to RESERVED, or SQLITE_BUSY
RollbackInsertVersion(p) ==
    /\ pc[p] = "rollback_insert_version"
    /\ IF ~CanWrite(p) \/ ~UniqueVersionFree(ViewVersions(p), req[p].name, NewVersion(p))
       THEN Return(p, "failed to insert rollback version", NoConfig) /\ TxRollback(p)
       ELSE /\ Goto(p, "rollback_set_current_version", loc[p])
            /\ TxWrite(p, ViewConfigurations(p),
                          InsertVersion(ViewVersions(p), RollbackVersion(p)))
    /\ UNCHANGED clock

\* 4. UPDATE configurations SET current_version = ?, updated_at = ? ...
RollbackSetCurrentVersion(p) ==
    /\ pc[p] = "rollback_set_current_version"
    /\ Goto(p, "rollback_commit", loc[p])
    /\ TxWrite(p, SetCurrentVersion(ViewConfigurations(p), req[p].name,
                                    NewVersion(p), loc[p].now),
                  ViewVersions(p))
    /\ UNCHANGED clock

RollbackCommit(p) ==
    /\ pc[p] = "rollback_commit"
    /\ TxCommit(p)
    /\ Return(p, "", Configuration(req[p].name, NewVersion(p),
                                   loc[p].createdAt, loc[p].now))
    /\ UNCHANGED clock

(***************************************************************************)
(* ConfigService.GetLatestConfig -> SQLiteStore.GetLatestConfiguration:    *)
(* one statement on the pool, which reads the committed tables             *)
(***************************************************************************)
GetLatestConfig(p, n) ==
    /\ Begin(p)
    /\ LET rows == LatestRows(configurations, versions, n)
           row == CHOOSE cv \in rows : TRUE
       IN IF rows = {}
          THEN Reject(p, "get_latest", "ConfigNotFound")
          ELSE IF UnmarshalFails(row[2].json_data)
          THEN Reject(p, "get_latest", "failed to parse configuration data")
          ELSE Respond(p, "get_latest",
                       ConfigurationData(row[1].name, row[1].current_version,
                                         ConfigData(row[2].json_data), row[2].created_at))
    /\ NoTx
    /\ UNCHANGED clock

(***************************************************************************)
(* ConfigService.GetConfigVersion -> SQLiteStore.GetConfigurationVersion   *)
(***************************************************************************)
\* a service that hands every version number to the store
ServiceGetConfigVersionDelegating(p, n, v) ==
    /\ Begin(p)
    /\ LET rows == VersionRows(versions, n, v)
           row == CHOOSE r \in rows : TRUE
       IN IF rows = {}
          THEN Reject(p, "get_version", "VersionNotFound")
          ELSE IF UnmarshalFails(row.json_data)
          THEN Reject(p, "get_version", "failed to parse configuration data")
          ELSE Respond(p, "get_version",
                       ConfigurationData(row.configuration_name, row.version_number,
                                         ConfigData(row.json_data), row.created_at))
    /\ NoTx
    /\ UNCHANGED clock

\* ConfigService.GetConfigVersion, called with any version number
ServiceGetConfigVersion(p, n, v) ==
    /\ Begin(p)
    /\ LET rows == VersionRows(versions, n, v)
           row == CHOOSE r \in rows : TRUE
       IN IF v < 1
          THEN Reject(p, "get_version",
                      "INVALID_VERSION_NUMBER: Version number must be positive integer")
          ELSE IF rows = {}
          THEN Reject(p, "get_version", "VersionNotFound")
          ELSE IF UnmarshalFails(row.json_data)
          THEN Reject(p, "get_version", "failed to parse configuration data")
          ELSE Respond(p, "get_version",
                       ConfigurationData(row.configuration_name, row.version_number,
                                         ConfigData(row.json_data), row.created_at))
    /\ NoTx
    /\ UNCHANGED clock

\* a handler that hands every version number to the service
GetConfigVersionUnchecked(p, n, v) == ServiceGetConfigVersion(p, n, v)

\* ConfigHandler.GetConfigVersion: the handler's check, then the service
GetConfigVersion(p, n, v) ==
    IF v < 1
    THEN /\ Begin(p)
         /\ Refuse(p, "get_version", "InvalidVersionNumber")
         /\ NoTx
         /\ UNCHANGED clock
    ELSE ServiceGetConfigVersion(p, n, v)

(***************************************************************************)
(* ConfigService.ListVersions -> SQLiteStore.ListVersions: two statements  *)
(* on the pool, each of which reads the committed tables                   *)
(***************************************************************************)
\* 1. SELECT name, current_version, ... FROM configurations WHERE name = ?
ListVersions(p, n) ==
    /\ Begin(p)
    /\ LET rows == ConfigurationRows(configurations, n)
       IN IF rows = {}
          THEN Reject(p, "list", "ConfigNotFound")
          ELSE Accept(p, [op |-> "list", name |-> n, data |-> NoDoc, target |-> 0],
                      "list_select_versions",
                      [NoLocals EXCEPT
                          !.currentVersion = (CHOOSE c \in rows : TRUE).current_version,
                          !.createdAt = (CHOOSE c \in rows : TRUE).created_at])
    /\ NoTx
    /\ UNCHANGED clock

\* 2. SELECT ... FROM versions WHERE configuration_name = ? ORDER BY version_number DESC
ListSelectVersions(p) ==
    /\ pc[p] = "list_select_versions"
    /\ Answer(p, "", NoConfig,
              VersionList(req[p].name, loc[p].currentVersion,
                          VersionInfos(OrderByVersionNumberDesc(
                              VersionsOf(versions, req[p].name)))))
    /\ NoTx
    /\ UNCHANGED clock

(***************************************************************************)
(* Environment.                                                            *)
(***************************************************************************)
\* the error a store method wraps a failure of the statement at pc in
StatementError(at) ==
    CASE at = "create_insert_configuration" -> "failed to insert configuration"
      [] at = "create_insert_version" -> "failed to insert version"
      [] at = "update_select" -> "failed to query configuration"
      [] at = "update_insert_version" -> "failed to insert new version"
      [] at = "update_set_current_version" -> "failed to update configuration"
      [] at = "rollback_select_version" -> "failed to get target version data"
      [] at = "rollback_select_configuration" -> "failed to get current version"
      [] at = "rollback_insert_version" -> "failed to insert rollback version"
      [] at = "rollback_set_current_version" -> "failed to update current version"
      [] OTHER -> "failed to commit transaction"

\* the statement or Commit p is at fails in the engine (I/O error, disk full,
\* busy timeout): the method returns a wrapped error and the deferred
\* Rollback runs
ExecFails(p) ==
    /\ pc[p] # "idle"
    /\ Return(p, StatementError(pc[p]), NoConfig)
    /\ TxRollback(p)
    /\ UNCHANGED clock

\* the configuration row of n is deleted from the database file by another
\* client of it (no statement of the program deletes a row); its commit needs
\* every connection of the program to hold no lock
ConfigurationVanishes(n) ==
    /\ \A p \in Procs : lock[p] = "none"
    /\ ConfigurationRows(configurations, n) # {}
    /\ configurations' = configurations \ ConfigurationRows(configurations, n)
    /\ txConfigurations' = configurations \ ConfigurationRows(configurations, n)
    /\ UNCHANGED <<versions, txVersions, lock, pc, req, loc, result, clock, ops>>

\* the version row that n's configuration row points at is deleted from the
\* database file by another client of it
CurrentVersionVanishes(n) ==
    /\ \A p \in Procs : lock[p] = "none"
    /\ LatestRows(configurations, versions, n) # {}
    /\ versions' = versions \ {cv[2] : cv \in LatestRows(configurations, versions, n)}
    /\ txVersions' = versions \ {cv[2] : cv \in LatestRows(configurations, versions, n)}
    /\ UNCHANGED <<configurations, txConfigurations, lock, pc, req, loc, result, clock,
                   ops>>

\* the creates, updates and rollbacks of the names NS with the payloads PS
NextOver(NS, PS) ==
    \/ \E p \in Procs, n \in NS, d \in PS : CreateConfig(p, n, d)
    \/ \E p \in Procs : CreateInsertConfiguration(p)
    \/ \E p \in Procs : CreateInsertVersion(p)
    \/ \E p \in Procs : CreateCommit(p)
    \/ \E p \in Procs, n \in NS, d \in PS : UpdateConfig(p, n, d)
    \/ \E p \in Procs : UpdateSelectCurrentVersion(p)
    \/ \E p \in Procs : UpdateInsertVersion(p)
    \/ \E p \in Procs : UpdateSetCurrentVersion(p)
    \/ \E p \in Procs : UpdateCommit(p)
    \/ \E p \in Procs, n \in NS, t \in Targets : RollbackConfig(p, n, t)
    \/ \E p \in Procs : RollbackSelectVersion(p)
    \/ \E p \in Procs : RollbackSelectConfiguration(p)
    \/ \E p \in Procs : RollbackInsertVersion(p)
    \/ \E p \in Procs : RollbackSetCurrentVersion(p)
    \/ \E p \in Procs : RollbackCommit(p)

\* the requests on the names NS
NextOn(NS) == NextOver(NS, Payloads)

Next == NextOn(Names)

\* the requests on one name
NextName == NextOn({"app"})

\* the requests on every name, with one payload the validator accepts and
\* one it rejects
FramePayloads ==
    {JObject({JInt("max_limit", 1000), JBool("enabled", TRUE)}),
     JObject({JInt("max_limit", 1000)})}
NextFrame == NextOver(Names, FramePayloads)

\* the requests on one name, with an engine whose statements may fail
NextFault ==
    \/ NextOn({"app"})
    \/ \E p \in Procs : ExecFails(p)

\* the bodies and the version numbers a request may carry
ApiPayloads ==
    {JObject({JInt("max_limit", 1000), JBool("enabled", TRUE)})}
        \cup BigPayloads \cup InvalidPayloads \cup {NoDoc, MalformedBody}
ApiVersions == -1..MaxOps

\* the API: every route, on one configuration ("web" is never created)
NextApi ==
    \/ NextOver({"app"}, ApiPayloads)
    \/ \E p \in Procs, n \in {"", "a b"}, d \in InvalidPayloads : CreateConfig(p, n, d)
    \/ \E p \in Procs, n \in {"app", "web"}, t \in {-1, 0} : RollbackConfig(p, n, t)
    \/ \E p \in Procs, n \in {"app", "web"} : GetLatestConfig(p, n)
    \/ \E p \in Procs, n \in {"app", "web"}, v \in ApiVersions : GetConfigVersion(p, n, v)
    \/ \E p \in Procs, n \in {"app", "web"} : ListVersions(p, n)
    \/ \E p \in Procs : ListSelectVersions(p)

\* the creates alone, with every name and every body
NextCreate ==
    \/ \E p \in Procs, n \in Names \cup BadNames, d \in ApiPayloads : CreateConfig(p, n, d)
    \/ \E p \in Procs : CreateInsertConfiguration(p)
    \/ \E p \in Procs : CreateInsertVersion(p)
    \/ \E p \in Procs : CreateCommit(p)

\* the validator: one client's creates and updates of one name, with every
\* document
NextValidate ==
    \/ \E d \in Docs : CreateConfig("p1", "app", d)
    \/ \E d \in Docs : UpdateConfig("p1", "app", d)
    \/ \E p \in Procs : CreateInsertConfiguration(p)
    \/ \E p \in Procs : CreateInsertVersion(p)
    \/ \E p \in Procs : CreateCommit(p)
    \/ \E p \in Procs : UpdateSelectCurrentVersion(p)
    \/ \E p \in Procs : UpdateInsertVersion(p)
    \/ \E p \in Procs : UpdateSetCurrentVersion(p)
    \/ \E p \in Procs : UpdateCommit(p)

\* the service, called as the handlers call it and with version numbers the
\* handlers refuse, on one configuration
ServicePayloads ==
    {JObject({JInt("max_limit", 1000), JBool("enabled", TRUE)}),
     JObject({JInt("max_limit", 1000)}), NoDoc}
        \cup BigPayloads \cup DecimalPayloads
ServiceVersions == 0..2

NextService ==
    \/ \E p \in Procs, d \in ServicePayloads : CreateConfig(p, "app", d)
    \/ \E p \in Procs : CreateInsertConfiguration(p)
    \/ \E p \in Procs : CreateInsertVersion(p)
    \/ \E p \in Procs : CreateCommit(p)
    \/ \E p \in Procs, d \in ServicePayloads : UpdateConfig(p, "app", d)
    \/ \E p \in Procs : UpdateSelectCurrentVersion(p)
    \/ \E p \in Procs : UpdateInsertVersion(p)
    \/ \E p \in Procs : UpdateSetCurrentVersion(p)
    \/ \E p \in Procs : UpdateCommit(p)
    \/ \E p \in Procs, t \in ServiceVersions : ServiceRollbackConfig(p, "app", t)
    \/ \E p \in Procs : RollbackSelectVersion(p)
    \/ \E p \in Procs : RollbackSelectConfiguration(p)
    \/ \E p \in Procs : RollbackInsertVersion(p)
    \/ \E p \in Procs : RollbackSetCurrentVersion(p)
    \/ \E p \in Procs : RollbackCommit(p)
    \/ \E p \in Procs : GetLatestConfig(p, "app")
    \/ \E p \in Procs, v \in ServiceVersions : ServiceGetConfigVersion(p, "app", v)
    \/ \E p \in Procs : ListVersions(p, "app")
    \/ \E p \in Procs : ListSelectVersions(p)

\* the requests on one name, in a database another client deletes rows of
NextVanish ==
    \/ NextOn({"app"})
    \/ \E p \in Procs : GetLatestConfig(p, "app")
    \/ ConfigurationVanishes("app")
    \/ CurrentVersionVanishes("app")

\* the store
Spec == Init /\ [][Next]_vars

\* the store, every request on one name
SpecName == Init /\ [][NextName]_vars

\* the store, with two payloads
SpecFrame == Init /\ [][NextFrame]_vars

\* the store on a failing engine
SpecFault == Init /\ [][NextFault]_vars

\* the API
SpecApi == Init /\ [][NextApi]_vars

\* the route POST /configs
SpecCreate == Init /\ [][NextCreate]_vars

\* the store, in a database another client deletes rows of
SpecVanish == Init /\ [][NextVanish]_vars

\* the service
SpecService == Init /\ [][NextService]_vars

\* the validator
SpecValidate == Init /\ [][NextValidate]_vars

(***************************************************************************)
(* Properties.                                                             *)
(***************************************************************************)
\* the step in which p's request returns
Returns(p) == pc[p] # "idle" /\ pc'[p] = "idle"
\* ... successfully
Succeeds(p) == Returns(p) /\ result'[p].err = ""

\* the committed row of configuration n, and its current version (0 if none)
ConfigurationOf(tbl, n) == CHOOSE c \in ConfigurationRows(tbl, n) : TRUE
CurrentVersionOf(tbl, n) ==
    IF ConfigurationRows(tbl, n) = {} THEN 0 ELSE ConfigurationOf(tbl, n).current_version
VersionNumbers(tbl, n) == {r.version_number : r \in VersionsOf(tbl, n)}
DataOf(tbl, n, v) == (CHOOSE r \in VersionRows(tbl, n, v) : TRUE).json_data

\* C1: Monotonic versioning.  The committed versions change only in the step
\* in which a create, update or rollback returns successfully, and the k-th
\* such step on a name (k-1 versions of the name are committed before it)
\* adds exactly one version, numbered k, reports k as the configuration's
\* current_version and stores k as current_version, whatever the operation.
C1_MonotonicVersioning ==
    [][ /\ (versions' # versions => \E p \in Procs : Succeeds(p))
        /\ \A p \in Procs :
              Succeeds(p) =>
                  LET n == req[p].name
                      k == Cardinality(VersionsOf(versions, n)) + 1
                  IN /\ result'[p].config.name = n
                     /\ result'[p].config.current_version = k
                     /\ CurrentVersionOf(configurations', n) = k
                     /\ \E row \in versions' :
                            /\ row.configuration_name = n
                            /\ row.version_number = k
                            /\ row \notin versions
                            /\ versions' = versions \cup {row}
      ]_vars

\* C1 witness: create, then two more mutations, then a rollback reported and
\* stored as version 4.
C1_Witness ==
    \E p \in Procs, n \in Names :
        /\ result[p].op = "rollback"
        /\ result[p].err = ""
        /\ result[p].config.name = n
        /\ result[p].config.current_version = 4
        /\ VersionNumbers(versions, n) = 1..4
        /\ CurrentVersionOf(configurations, n) = 4

\* C2: in every committed state each name has at most one configuration row,
\* the versions of a configuration carry exactly the numbers
\* 1..current_version, one row per number, and every version row belongs to
\* a configuration row.
C2_CommittedConsistent ==
    /\ \A c \in configurations :
          /\ ConfigurationRows(configurations, c.name) = {c}
          /\ c.current_version >= 1
          /\ VersionNumbers(versions, c.name) = 1..c.current_version
          /\ Cardinality(VersionsOf(versions, c.name)) = c.current_version
    /\ \A r \in versions : ConfigurationRows(configurations, r.configuration_name) # {}

\* C2 witness: a writer has inserted version 3 and not yet advanced
\* current_version in its transaction, while the committed tables still show
\* versions 1..2 and current_version 2.
C2_Witness ==
    \E p \in Procs :
        /\ pc[p] \in {"update_set_current_version", "rollback_set_current_version"}
        /\ CurrentVersionOf(configurations, req[p].name) = 2
        /\ VersionNumbers(versions, req[p].name) = 1..2
        /\ VersionNumbers(txVersions, req[p].name) = 1..3
        /\ CurrentVersionOf(txConfigurations, req[p].name) = 2

\* C3: append-only history.  Every committed version row is still there after
\* any step, with the same json_data, no other row takes its
\* (name, version_number), and no configuration row disappears.
C3_AppendOnly ==
    [][ /\ \A r \in versions :
              /\ r \in versions'
              /\ \A r2 \in versions' :
                    (r2.configuration_name = r.configuration_name
                        /\ r2.version_number = r.version_number)
                    => r2.json_data = r.json_data
        /\ \A c \in configurations : ConfigurationRows(configurations', c.name) # {}
      ]_vars

\* C3 witness: a rollback to version 1 has returned as version 3, and version
\* 1 and version 2 hold different payloads, version 3 the payload of version 1.
C3_Witness ==
    \E p \in Procs, n \in Names :
        /\ result[p].op = "rollback"
        /\ result[p].err = ""
        /\ result[p].config.name = n
        /\ result[p].config.current_version = 3
        /\ VersionNumbers(versions, n) = 1..3
        /\ DataOf(versions, n, 1) # DataOf(versions, n, 2)
        /\ DataOf(versions, n, 3) = DataOf(versions, n, 1)

\* C4: rollback is additive.  A rollback of n to V that returns successfully
\* while the committed current version is N found version V (1 <= V <= N),
\* adds exactly one version row, numbered N+1, with the json_data of version
\* V, sets current_version to N+1, reports N+1 and leaves every other version
\* row as it was.  A rollback fails with VersionNotFound only when version V
\* does not exist, and otherwise only when another connection holds the
\* write lock.
C4_RollbackAdditive ==
    [][ \A p \in Procs :
          (Returns(p) /\ req[p].op = "rollback") =>
              LET n == req[p].name
                  V == req[p].target
                  N == CurrentVersionOf(configurations, n)
              IN /\ result'[p].err = "" =>
                        /\ V \in 1..N
                        /\ versions' = versions
                               \cup {Version(n, N + 1, DataOf(versions, n, V), loc[p].now)}
                        /\ VersionRows(versions, n, N + 1) = {}
                        /\ CurrentVersionOf(configurations', n) = N + 1
                        /\ result'[p].config.current_version = N + 1
                 /\ result'[p].err = "VersionNotFound" => VersionRows(versions, n, V) = {}
                 /\ result'[p].err \notin {"", "VersionNotFound"} =>
                        /\ result'[p].err = "failed to insert rollback version"
                        /\ \E q \in Procs \ {p} : lock[q] = "reserved"
      ]_vars

\* C4 witness: with versions 1 and 2 holding different payloads, two rollbacks
\* to version 1 have returned as versions 3 and 4, both copies of version 1.
C4_Witness ==
    \E p, q \in Procs, n \in Names :
        /\ result[p].op = "rollback" /\ result[p].err = ""
        /\ result[q].op = "rollback" /\ result[q].err = ""
        /\ result[p].config.name = n /\ result[q].config.name = n
        /\ result[p].config.current_version = 3
        /\ result[q].config.current_version = 4
        /\ VersionNumbers(versions, n) = 1..4
        /\ DataOf(versions, n, 1) # DataOf(versions, n, 2)
        /\ DataOf(versions, n, 3) = DataOf(versions, n, 1)
        /\ DataOf(versions, n, 4) = DataOf(versions, n, 1)

\* C5: Uniqueness.  A create (its payload valid) that returns while a
\* configuration row of its name is committed returns ConfigAlreadyExists,
\* answered 409 CONFIG_ALREADY_EXISTS, and the step changes neither table:
\* the row keeps current_version and timestamps, no version is added.
C5_Uniqueness ==
    [][ \A p \in Procs :
          (Returns(p) /\ req[p].op = "create"
              /\ ConfigurationRows(configurations, req[p].name) # {}) =>
              /\ result'[p].err = "ConfigAlreadyExists"
              /\ handleError(result'[p].err) =
                     [status |-> 409, code |-> "CONFIG_ALREADY_EXISTS"]
              /\ configurations' = configurations
              /\ versions' = versions
      ]_vars

\* C5 witness: a create was answered ConfigAlreadyExists although every name
\* has a configuration that has moved on to version 2.
C5_Witness ==
    \E p \in Procs :
        /\ result[p].op = "create"
        /\ result[p].err = "ConfigAlreadyExists"
        /\ \E n \in Names : CurrentVersionOf(configurations, n) = 2
        /\ \A n \in Names : CurrentVersionOf(configurations, n) >= 1

\* C6: Schema gate.  A create or update whose payload misses enabled or has a
\* non-integer max_limit returns SchemaValidationFailed, answered 422, in the
\* step in which it arrives (the only steps that count a request in ops): the
\* request executes no statement, and neither the committed tables nor any
\* transaction changes.
C6_SchemaGate ==
    [][ ops' # ops =>
          \A p \in Procs, n \in Names, d \in InvalidPayloads :
              (CreateConfig(p, n, d) \/ UpdateConfig(p, n, d)) =>
                  /\ result'[p].err = "SchemaValidationFailed"
                  /\ handleError(result'[p].err).status = 422
                  /\ pc'[p] = "idle"
                  /\ UNCHANGED <<configurations, versions, txConfigurations, txVersions,
                                 lock>>
      ]_vars

\* C6 witness: an update and a create were rejected with
\* SchemaValidationFailed while a configuration is committed.
C6_Witness ==
    \E p \in Procs :
        /\ result[p].op = "update"
        /\ result[p].err = "SchemaValidationFailed"
        /\ \E n \in Names : CurrentVersionOf(configurations, n) >= 1
        /\ \E q \in Procs \ {p} :
               result[q].op = "create" /\ result[q].err = "SchemaValidationFailed"

\* C7: Atomic failure.  The step in which a create, update or rollback returns
\* an error leaves both committed tables as they are, releases the request's
\* locks, and drops its uncommitted writes: whenever no connection holds the
\* write lock, the tables a new transaction starts from are the committed ones.
C7_AtomicFailure ==
    [][ \A p \in Procs :
          (Returns(p) /\ result'[p].err # "") =>
              /\ configurations' = configurations
              /\ versions' = versions
              /\ lock'[p] = "none"
              /\ (\A q \in Procs : lock'[q] # "reserved") =>
                     (txConfigurations' = configurations' /\ txVersions' = versions')
      ]_vars

\* C7 witness: one request has failed at its second write (its first one
\* uncommitted in its transaction) and another one at its Commit, and a
\* configuration is committed.
C7_Witness ==
    \E p, q \in Procs :
        /\ p # q
        /\ result[p].err \in {"failed to insert version", "failed to update configuration",
                              "failed to update current version"}
        /\ result[q].err = "failed to commit transaction"
        /\ configurations # {}

\* the requests that are inside UpdateConfiguration's transaction
InUpdateTx(p) ==
    pc[p] \in {"update_insert_version", "update_set_current_version", "update_commit"}

\* C8: two updates of one name that are in their transactions at the same
\* time have computed different new version numbers.
C8_DistinctNewVersions ==
    \A p, q \in Procs :
        (p # q /\ InUpdateTx(p) /\ InUpdateTx(q) /\ req[p].name = req[q].name)
        => NewVersion(p) # NewVersion(q)

\* C9: concurrent updates are serialized: an update with a valid payload of a
\* name that has a configuration succeeds, so of two of them one returns
\* version N+1 and the other N+2.
C9_UpdatesSerialized ==
    \A p \in Procs :
        result[p].op = "update"
        => result[p].err \in {"", "SchemaValidationFailed", "ConfigNotFound"}

\* C10: of the creates of one name at most one commits.  A create returns
\* successfully only when no configuration row of its name is committed, and
\* then the committed rows of the name are exactly one configuration row with
\* current_version 1 and one version row, version 1 with the payload of this
\* create; every other create returns ConfigAlreadyExists, a row of the name
\* being committed, and changes nothing.
C10_ConcurrentCreate ==
    [][ \A p \in Procs :
          (Returns(p) /\ req[p].op = "create") =>
              LET n == req[p].name
              IN IF result'[p].err = ""
                 THEN /\ ConfigurationRows(configurations, n) = {}
                      /\ VersionsOf(versions, n) = {}
                      /\ ConfigurationRows(configurations', n) =
                             {Configuration(n, 1, loc[p].now, loc[p].now)}
                      /\ VersionsOf(versions', n) =
                             {Version(n, 1, req[p].data, loc[p].now)}
                      /\ result'[p].config = Configuration(n, 1, loc[p].now, loc[p].now)
                 ELSE /\ result'[p].err = "ConfigAlreadyExists"
                      /\ ConfigurationRows(configurations, n) # {}
                      /\ UNCHANGED tables
      ]_vars

\* C10 witness: a create of n has committed at time 2 while another create of
\* n, which began before it (at time 1) with another payload, is still at its
\* first insert.
C10_Witness ==
    \E p, q \in Procs :
        /\ p # q
        /\ result[p].op = "create" /\ result[p].err = ""
        /\ result[p].config.created_at = 2
        /\ pc[q] = "create_insert_configuration"
        /\ req[q].name = result[p].config.name
        /\ loc[q].now = 1
        /\ req[q].data # DataOf(versions, req[q].name, 1)

\* the names that have a configuration row in tbl
ConfigurationNames(tbl) == {c.name : c \in tbl}

\* C11: the answer of ListVersions is a snapshot: the current_version it
\* carries is the highest version number of the list it carries.
C11_ListSnapshot ==
    \A p \in Procs :
        (result[p].op = "list" /\ result[p].err = "") =>
            LET body == result[p].body
            IN /\ \E i \in 1..Len(body.versions) :
                      body.versions[i].version = body.current_version
               /\ \A i \in 1..Len(body.versions) :
                      body.versions[i].version <= body.current_version

\* C12: UpdateConfig never creates a configuration.  An update with a valid
\* payload that finds no configuration row of its name returns ConfigNotFound,
\* answered 404 CONFIG_NOT_FOUND, in that step and without a write; and no step
\* of an update adds a configuration name, or a version row of a name that
\* has no configuration, to the committed tables or to the writer's.
C12_UpdateNeverCreates ==
    [][ \A p \in Procs :
          (req[p].op = "update" /\ pc'[p] # pc[p]) =>
              /\ (ConfigurationRows(configurations, req[p].name) = {}
                  /\ pc[p] = "update_select") =>
                     /\ Returns(p)
                     /\ result'[p].err = "ConfigNotFound"
                     /\ result'[p].status = 404
                     /\ result'[p].code = "CONFIG_NOT_FOUND"
                     /\ UNCHANGED <<configurations, versions, txConfigurations,
                                    txVersions, lock>>
              /\ ConfigurationNames(configurations') = ConfigurationNames(configurations)
              /\ ConfigurationNames(txConfigurations') \subseteq
                     ConfigurationNames(txConfigurations) \cup ConfigurationNames(configurations)
              /\ \A n \in Names :
                     ConfigurationRows(configurations, n) = {} =>
                         VersionsOf(versions', n) = {}
      ]_vars

\* C12 witness: an update was answered 404 ConfigNotFound while the other name
\* has a configuration at version 2, and its own name still has no row.
C12_Witness ==
    \E p \in Procs, n \in Names :
        /\ result[p].op = "update"
        /\ result[p].err = "ConfigNotFound"
        /\ result[p].status = 404
        /\ CurrentVersionOf(configurations, n) = 2
        /\ Cardinality(configurations) = 1
        /\ versions = VersionsOf(versions, n)

\* the created_at of the committed version v of n
CreatedAtOf(tbl, n, v) == (CHOOSE r \in VersionRows(tbl, n, v) : TRUE).created_at

C14_GetLatest ==
    [][ \A p \in Procs :
          /\ ops' # ops =>
                 \A n \in {"app", "web"} :
                     GetLatestConfig(p, n) =>
                         LET N == CurrentVersionOf(configurations, n)
                         IN IF ConfigurationRows(configurations, n) = {}
                            THEN /\ result'[p].err = "ConfigNotFound"
                                 /\ result'[p].status = 404
                                 /\ result'[p].code = "CONFIG_NOT_FOUND"
                            ELSE /\ result'[p].err = "" /\ result'[p].status = 200
                                 /\ result'[p].body =
                                        ConfigurationData(n, N, ConfigData(DataOf(versions, n, N)),
                                                          CreatedAtOf(versions, n, N))
          /\ (Succeeds(p) /\ req[p].op \in {"create", "update", "rollback"}) =>
                 LET rows == LatestRows(configurations', versions', req[p].name)
                 IN /\ rows # {}
                    /\ \A cv \in rows :
                           /\ cv[1].current_version = result'[p].config.current_version
                           /\ cv[2].json_data =
                                  IF req[p].op = "rollback"
                                  THEN DataOf(versions, req[p].name, req[p].target)
                                  ELSE req[p].data
      ]_vars

\* C15: GetConfigVersion.  A read of version v >= 1 of a name is answered
\* VersionNotFound (404, never ConfigNotFound) when no version row (name, v)
\* is committed, whether the name has a configuration or not; otherwise it is
\* answered 200 with the name, v, and the payload and created_at the row was
\* inserted with, and no later step changes or removes a committed version row.
C15_GetConfigVersion ==
    [][ /\ ops' # ops =>
              \A p \in Procs, n \in {"app", "web"}, v \in 1..MaxOps :
                  GetConfigVersion(p, n, v) =>
                      IF VersionRows(versions, n, v) = {}
                      THEN /\ result'[p].err = "VersionNotFound"
                           /\ result'[p].status = 404
                           /\ result'[p].code = "VERSION_NOT_FOUND"
                      ELSE /\ result'[p].err = "" /\ result'[p].status = 200
                           /\ result'[p].body =
                                  ConfigurationData(n, v, ConfigData(DataOf(versions, n, v)),
                                                    CreatedAtOf(versions, n, v))
        /\ \A r \in versions : r \in versions'
        /\ \A r \in versions' \ versions :
              UniqueVersionFree(versions, r.configuration_name, r.version_number)
      ]_vars

\* C16: a version number below 1 is refused before the store is touched.  A
\* rollback whose target_version is below 1 (0 when the body has none) and a
\* read of a version below 1 are answered 400 INVALID_VERSION_NUMBER in the
\* step in which they arrive, whether the name has a configuration or not,
\* and neither the tables nor any transaction or lock changes.
C16_InvalidVersionNumber ==
    [][ ops' # ops =>
          \A p \in Procs, n \in {"app", "web"}, v \in {-1, 0} :
              (RollbackConfig(p, n, v) \/ GetConfigVersion(p, n, v)) =>
                  /\ result'[p].err = "InvalidVersionNumber"
                  /\ result'[p].status = 400
                  /\ result'[p].code = "INVALID_VERSION_NUMBER"
                  /\ pc'[p] = "idle"
                  /\ UNCHANGED <<configurations, versions, txConfigurations, txVersions,
                                 lock>>
      ]_vars

\* C16 witness: a rollback and a read of a version were both answered 400
\* INVALID_VERSION_NUMBER while a configuration is committed.
C16_Witness ==
    \E p, q \in Procs :
        /\ result[p].op = "rollback" /\ result[q].op = "get_version"
        /\ result[p].err = "InvalidVersionNumber" /\ result[p].status = 400
        /\ result[q].err = "InvalidVersionNumber" /\ result[q].status = 400
        /\ configurations # {}

\* C17: RollbackConfiguration looks up the target version first and the
\* configuration second.  A rollback to a target >= 1 whose version row
\* (name, target) is not committed returns VersionNotFound (404) at its first
\* statement, whether the name has a configuration or not; it returns
\* ConfigNotFound only when the version row exists and the configuration row
\* does not; in both cases no row is written and the tables stay as they are.
C17_RollbackLookupOrder ==
    [][ \A p \in Procs :
          (req[p].op = "rollback" /\ pc'[p] # pc[p]) =>
              /\ (pc[p] = "rollback_select_version"
                  /\ VersionRows(versions, req[p].name, req[p].target) = {}) =>
                     /\ Returns(p)
                     /\ result'[p].err = "VersionNotFound"
                     /\ result'[p].status = 404
                     /\ result'[p].code = "VERSION_NOT_FOUND"
              /\ (Returns(p) /\ result'[p].err = "VersionNotFound") =>
                     VersionRows(versions, req[p].name, req[p].target) = {}
              /\ (Returns(p) /\ result'[p].err = "ConfigNotFound") =>
                     /\ VersionRows(versions, req[p].name, req[p].target) # {}
                     /\ ConfigurationRows(configurations, req[p].name) = {}
              /\ (Returns(p) /\ result'[p].err \in {"VersionNotFound", "ConfigNotFound"}) =>
                     /\ lock[p] # "reserved"
                     /\ UNCHANGED <<configurations, versions, txConfigurations, txVersions>>
      ]_vars

\* C17 witness: two rollbacks have returned VersionNotFound, both names still
\* in the state they were in: one has a configuration at version 2, the other
\* has none.
C17_Witness ==
    \E p, q \in Procs :
        /\ p # q
        /\ result[p].op = "rollback" /\ result[p].err = "VersionNotFound"
        /\ result[q].op = "rollback" /\ result[q].err = "VersionNotFound"
        /\ result[p].status = 404
        /\ CurrentVersionOf(configurations, "app") = 2
        /\ VersionNumbers(versions, "app") = {1, 2}
        /\ VersionsOf(versions, "web") = {}

\* the error kinds a handler answers itself
BadRequestKinds ==
    {"InvalidVersionNumber", "InvalidConfigName", "MissingRequiredField",
     "MalformedRequestBody"}
\* the error kinds handleError recognizes
TypedKinds == {"ConfigAlreadyExists", "ConfigNotFound", "VersionNotFound",
               "SchemaValidationFailed"}

\* C18: every failing request is answered with the one status and code of its
\* error kind: ConfigAlreadyExists 409, ConfigNotFound 404, VersionNotFound
\* 404, SchemaValidationFailed 422, the kinds a handler refuses 400, anything
\* else 500; an answer is 2xx exactly when the request did not fail.
C18_StatusMapping ==
    \A p \in Procs :
        LET r == result[p]
        IN /\ r.err = "ConfigAlreadyExists" =>
                  r.status = 409 /\ r.code = "CONFIG_ALREADY_EXISTS"
           /\ r.err = "ConfigNotFound" => r.status = 404 /\ r.code = "CONFIG_NOT_FOUND"
           /\ r.err = "VersionNotFound" => r.status = 404 /\ r.code = "VERSION_NOT_FOUND"
           /\ r.err = "SchemaValidationFailed" =>
                  r.status = 422 /\ r.code = "SCHEMA_VALIDATION_FAILED"
           /\ r.err \in BadRequestKinds => r.status = 400
           /\ (r.err # "" /\ r.err \notin BadRequestKinds \cup TypedKinds) =>
                  r.status = 500 /\ r.code = "INTERNAL_SERVER_ERROR"
           /\ r.op # "none" => (r.err = "" <=> r.status \in 200..299)

\* C18 witness: one request was answered 409 for ConfigAlreadyExists, and
\* another 500 for a failure handleError does not recognize.
C18_Witness ==
    \E p, q \in Procs :
        /\ result[p].err = "ConfigAlreadyExists" /\ result[p].status = 409
        /\ result[q].err \notin BadRequestKinds \cup TypedKinds \cup {""}
        /\ result[q].status = 500

\* C19: a create (with a valid name) or an update whose body has no data
\* member is answered 400 and persists nothing.
C19_MissingData ==
    [][ ops' # ops =>
          \A p \in Procs :
              (CreateConfig(p, "app", NoDoc) \/ UpdateConfig(p, "app", NoDoc)) =>
                  /\ result'[p].status = 400
                  /\ pc'[p] = "idle"
                  /\ UNCHANGED <<configurations, versions, txConfigurations, txVersions,
                                 lock>>
      ]_vars

\* C20: on create the name is checked before anything else is done with the
\* decoded request.  A create with an empty (or absent) name is answered 400
\* MISSING_REQUIRED_FIELD, one with a name that has a character outside
\* [a-zA-Z0-9_-] or more than 100 characters 400 INVALID_CONFIG_NAME, with a
\* valid payload and with an invalid one alike (never 422), and nothing is
\* written; a create that goes on to the store has a name that passes the
\* check, and names of letters, digits, '_' and '-' up to 100 characters pass
\* (a fact of the check alone, stated of the steps of the initial state).
C20_NameCheckedFirst ==
    [][ /\ ops' # ops =>
              \A p \in Procs, n \in BadNames, d \in Payloads :
                  CreateConfig(p, n, d) =>
                      /\ result'[p].status = 400
                      /\ result'[p].code = IF n = "" THEN "MISSING_REQUIRED_FIELD"
                                           ELSE "INVALID_CONFIG_NAME"
                      /\ pc'[p] = "idle"
                      /\ UNCHANGED <<configurations, versions, txConfigurations,
                                     txVersions, lock>>
        /\ \A p \in Procs :
              (pc[p] = "idle" /\ pc'[p] = "create_insert_configuration") =>
                  isValidConfigName(Chars(req'[p].name))
        /\ ops = 0 =>
              /\ \A n \in Names \cup OddNames : isValidConfigName(Chars(n))
              /\ \A n \in BadNames : ~isValidConfigName(Chars(n))
              /\ isValidConfigName([i \in 1..100 |-> 97])
      ]_vars

\* C20 witness: a create without name was answered MISSING_REQUIRED_FIELD and
\* a create with an invalid name INVALID_CONFIG_NAME, and no row exists.
C20_Witness ==
    \E p, q \in Procs :
        /\ result[p].op = "create" /\ result[p].code = "MISSING_REQUIRED_FIELD"
        /\ result[q].op = "create" /\ result[q].code = "INVALID_CONFIG_NAME"
        /\ result[p].status = 400 /\ result[q].status = 400
        /\ configurations = {} /\ versions = {}
        /\ txConfigurations = {} /\ txVersions = {}

\* a document of the fixed shape: an object whose members are exactly
\* max_limit, an integer that is not negative, and enabled, a boolean
Conforms(doc) ==
    /\ doc.type = "object"
    /\ {m.key : m \in doc.members} = {"max_limit", "enabled"}
    /\ \A m \in doc.members :
           /\ m.key = "max_limit" => (m.type = "integer" /\ m.num >= 0)
           /\ m.key = "enabled" => m.type = "boolean"

\* C21: the validator accepts a payload exactly when it is an object whose
\* keys are max_limit and enabled, max_limit an integer >= 0 and enabled a
\* boolean, and rejects every other payload (a key missing, an extra key, a
\* negative or non-integer max_limit, a non-boolean enabled, a non-object)
\* with SchemaValidationFailed: a fact of the validator alone, stated of the
\* steps of the initial state.  A create or update (the requests that count
\* in ops when they arrive) goes on to the store only with a payload of that
\* shape, a payload of that shape is never rejected, a rejection is answered
\* 422 SCHEMA_VALIDATION_FAILED, and the step in which a request is validated
\* changes no table, transaction or lock.
C21_ValidatorAccepts ==
    [][ /\ ops = 0 =>
              \A d \in Docs :
                  ValidateConfigData(d) =
                      IF Conforms(d) THEN "" ELSE "SchemaValidationFailed"
        /\ ops' # ops =>
              /\ IF pc'["p1"] # "idle"
                 THEN /\ pc'["p1"] \in {"create_insert_configuration", "update_select"}
                      /\ Conforms(req'["p1"].data)
                      /\ result'["p1"].err = ""
                 ELSE /\ result'["p1"].err = "SchemaValidationFailed"
                      /\ result'["p1"].status = 422
                      /\ result'["p1"].code = "SCHEMA_VALIDATION_FAILED"
              /\ \A d \in {x \in Docs : Conforms(x)} :
                     (CreateConfig("p1", "app", d) \/ UpdateConfig("p1", "app", d)) =>
                         pc'["p1"] # "idle" /\ req'["p1"].data = d
              /\ UNCHANGED <<configurations, versions, txConfigurations, txVersions,
                             lock>>
      ]_vars

\* C21 witness: a payload with max_limit 0 is stored as version 1, an update
\* with a negative max_limit was the last request and was rejected, and the
\* tables hold that one version still.
C21_Witness ==
    /\ result["p1"].op = "update"
    /\ result["p1"].err = "SchemaValidationFailed"
    /\ result["p1"].body.validation_errors = {<<"max_limit", "number_gte", "max_limit">>}
    /\ VersionNumbers(versions, "app") = {1}
    /\ Member(DataOf(versions, "app", 1), "max_limit").num = 0

\* the constraints of the fixed shape that doc violates, each with the field
\* it is a constraint of and the member it is about
Violated(doc) ==
    IF doc.type # "object"
    THEN {<<"(root)", "">>}
    ELSE {<<"(root)", k>> : k \in {"max_limit", "enabled"} \ {m.key : m \in doc.members}}
         \cup {<<"(root)", m.key>> : m \in {x \in doc.members :
                                               x.key \notin {"max_limit", "enabled"}}}
         \cup {<<m.key, m.key>> : m \in {x \in doc.members :
                    \/ x.key = "max_limit" /\ ~(x.type = "integer" /\ x.num >= 0)
                    \/ x.key = "enabled" /\ x.type # "boolean"}}

\* the payload of the claim's example: enabled missing, max_limit negative and
\* an extra member
ThreeViolations == JObject({JInt("max_limit", -1), JStr("extra")})

\* C22: the SchemaValidationFailed error lists one entry (field path and
\* description) for every violated constraint, not only the first: for every
\* document (a fact of the validator alone, stated of the steps of the initial
\* state) the entries are as many as the violated constraints and name the
\* same fields and members.  A rejected create or update carries at least one
\* entry, and for a payload without enabled, with a negative max_limit and with
\* an extra member it carries exactly the three entries of these violations.
C22_EveryViolationListed ==
    [][ /\ ops = 0 =>
              \A d \in Docs :
                  /\ {<<e[1], e[3]>> : e \in ValidationErrors(d)} = Violated(d)
                  /\ Cardinality(ValidationErrors(d)) = Cardinality(Violated(d))
                  /\ \A e \in ValidationErrors(d) : e[1] # "" /\ e[2] # ""
        /\ ops' # ops =>
              /\ result'["p1"].err = "SchemaValidationFailed" =>
                     /\ result'["p1"].body.kind = "SchemaValidationError"
                     /\ result'["p1"].body.validation_errors # {}
              /\ (CreateConfig("p1", "app", ThreeViolations)
                      \/ UpdateConfig("p1", "app", ThreeViolations)) =>
                     result'["p1"].body.validation_errors =
                         {<<"(root)", "required", "enabled">>,
                          <<"(root)", "additional_property_not_allowed", "extra">>,
                          <<"max_limit", "number_gte", "max_limit">>}
      ]_vars

\* C22 witness: a create was rejected with three entries, one of the missing
\* enabled, one of the negative max_limit and one of the extra member.
C22_Witness ==
    /\ result["p1"].op = "create"
    /\ result["p1"].err = "SchemaValidationFailed"
    /\ Cardinality(result["p1"].body.validation_errors) = 3
    /\ {e[1] : e \in result["p1"].body.validation_errors} = {"(root)", "max_limit"}
    /\ {e[3] : e \in result["p1"].body.validation_errors} =
           {"enabled", "extra", "max_limit"}

\* the JSON members of a response's data (kind is the Go type, not a member)
FieldsOf(body) == DOMAIN body \ {"kind"}

\* C23: the data of a successful read of the latest configuration or of one
\* version has exactly the members name, version, data and created_at, and
\* the member data holds the stored payload, an object of max_limit and
\* enabled.
C23_ReadPayloadFields ==
    \A p \in Procs :
        (result[p].op \in {"get_latest", "get_version"} /\ result[p].err = "") =>
            /\ FieldsOf(result[p].body) = {"name", "version", "data", "created_at"}
            /\ DOMAIN result[p].body.data = {"max_limit", "enabled"}

\* C24: validation precedes every store access in CreateConfig and
\* UpdateConfig.  A create or update with a schema-invalid payload returns
\* SchemaValidationFailed in the step in which it arrives, whatever the store
\* holds: a create of a name that has a configuration does not return
\* ConfigAlreadyExists, an update of a name that has none does not return
\* ConfigNotFound; the request executes no statement, takes no lock, and
\* neither table nor any transaction changes.
C24_ValidationPrecedesStore ==
    [][ ops' # ops =>
          \A d \in InvalidPayloads \cup {ThreeViolations} :
              (CreateConfig("p1", "app", d) \/ UpdateConfig("p1", "app", d)) =>
                  /\ result'["p1"].err = "SchemaValidationFailed"
                  /\ result'["p1"].err \notin {"ConfigAlreadyExists", "ConfigNotFound"}
                  /\ pc'["p1"] = "idle"
                  /\ lock'["p1"] = "none"
                  /\ UNCHANGED <<configurations, versions, txConfigurations,
                                 txVersions, lock>>
      ]_vars

\* C24 witness: a create of a name that has a configuration, at version 2,
\* was the last request and was rejected with SchemaValidationFailed.
C24_Witness ==
    /\ result["p1"].op = "create"
    /\ result["p1"].err = "SchemaValidationFailed"
    /\ result["p1"].status = 422
    /\ CurrentVersionOf(configurations, "app") = 2
    /\ VersionNumbers(versions, "app") = {1, 2}

\* the errors of the validator, and the error of the service's own check
ValidatorErrors == {"SchemaValidationFailed", "schema validation error"}
InvalidVersionNumber == "INVALID_VERSION_NUMBER: Version number must be positive integer"

\* the errors a store method returns at statement at ("idle": a read that is
\* one statement, in the step in which it arrives)
StoreErrorsAt(at, op) ==
    {StatementError(at)} \cup
    (CASE at = "create_insert_configuration" -> {"ConfigAlreadyExists"}
       [] at = "update_select" -> {"ConfigNotFound"}
       [] at = "rollback_select_version" -> {"VersionNotFound"}
       [] at = "rollback_select_configuration" -> {"ConfigNotFound"}
       [] at = "idle" /\ op \in {"get_latest", "list"} -> {"ConfigNotFound"}
       [] at = "idle" /\ op = "get_version" -> {"VersionNotFound"}
       [] OTHER -> {})

\* every error a store method returns
StoreErrors ==
    UNION {StoreErrorsAt(at, op) :
              at \in {"create_insert_configuration", "create_insert_version",
                      "create_commit", "update_select", "update_insert_version",
                      "update_set_current_version", "rollback_select_version",
                      "rollback_select_configuration", "rollback_insert_version",
                      "rollback_set_current_version", "idle"},
              op \in {"get_latest", "get_version", "list"}}

\* C25 (as the code has it): the service passes the errors of the validator
\* and of the store through unchanged.  A request that fails returns either
\* the validator's error, raised when a create or update arrives, with all its
\* entries; or the error the store method returns at the statement the
\* request is at; or one of the two errors the service originates itself:
\* InvalidVersionNumber, raised by RollbackConfig and by GetConfigVersion for
\* a version below 1 before the store is touched, and the failure to parse a
\* stored payload, raised by GetLatestConfig and GetConfigVersion.
C25_ErrorsPassThrough ==
    [][ \A p \in Procs :
          /\ (result'[p] # result[p] /\ result'[p].err # "") =>
                 LET r == result'[p]
                 IN CASE r.err \in ValidatorErrors ->
                             /\ r.op \in {"create", "update"} /\ pc[p] = "idle"
                             /\ r.err = "SchemaValidationFailed" =>
                                    /\ r.body.kind = "SchemaValidationError"
                                    /\ r.body.validation_errors # {}
                      [] r.err = InvalidVersionNumber ->
                             /\ r.op \in {"rollback", "get_version"} /\ pc[p] = "idle"
                             /\ UNCHANGED <<configurations, versions, txConfigurations,
                                            txVersions, lock>>
                      [] r.err = "failed to parse configuration data" ->
                             /\ r.op \in {"get_latest", "get_version"}
                             /\ \E row \in versions : UnmarshalFails(row.json_data)
                      [] OTHER -> r.err \in StoreErrorsAt(pc[p], r.op)
          /\ ops' # ops =>
                 \A v \in {x \in ServiceVersions : x < 1} :
                     (ServiceRollbackConfig(p, "app", v)
                          \/ ServiceGetConfigVersion(p, "app", v)) =>
                         result'[p].err = InvalidVersionNumber
      ]_vars

\* C25 witness: a read of version 0 was answered by the service with
\* InvalidVersionNumber, and a rollback returned the store's VersionNotFound,
\* while a configuration is committed.
C25_Witness ==
    \E p, q \in Procs :
        /\ result[p].op = "get_version" /\ result[p].err = InvalidVersionNumber
        /\ result[q].op = "rollback" /\ result[q].err = "VersionNotFound"
        /\ configurations # {}

\* C25 (as stated): the only error the service originates itself is
\* InvalidVersionNumber, raised by RollbackConfig alone: every other error is
\* one of the validator or of the store.
C25_OnlyRollbackOriginates ==
    \A p \in Procs :
        result[p].err \notin {""} \cup ValidatorErrors \cup StoreErrors =>
            (result[p].op = "rollback" /\ result[p].err = InvalidVersionNumber)

\* C26: every json_data stored in the versions table conforms to the fixed
\* schema, in every reachable state, committed or written in a transaction.
\* A version row a create or update writes holds the payload of the request,
\* which passed the validator; a version row a rollback writes holds the
\* json_data of the committed version it targets, and is not validated again.
C26_StoredDataConforms ==
    [][ /\ \A r \in versions' \cup txVersions' :
              Conforms(r.json_data) /\ ValidateConfigData(r.json_data) = ""
        /\ \A r \in txVersions' \ txVersions :
              \E p \in Procs :
                  /\ lock'[p] = "reserved"
                  /\ r.configuration_name = req[p].name
                  /\ IF req[p].op = "rollback"
                     THEN \E o \in VersionRows(versions, req[p].name, req[p].target) :
                              r.json_data = o.json_data
                     ELSE /\ req[p].op \in {"create", "update"}
                          /\ r.json_data = req[p].data
                          /\ ValidateConfigData(req[p].data) = ""
      ]_vars

\* C26 witness: a rollback has committed a copy of a version as version 3,
\* and a create or update was rejected by the validator.
C26_Witness ==
    \E p, q \in Procs :
        /\ result[p].op \in {"create", "update"}
        /\ result[p].err = "SchemaValidationFailed"
        /\ result[q].op = "rollback" /\ result[q].err = ""
        /\ VersionNumbers(versions, "app") = {1, 2, 3}
        /\ DataOf(versions, "app", 3) \in
               {DataOf(versions, "app", 1), DataOf(versions, "app", 2)}

\* C27: an update whose transaction runs when the configuration row of its
\* name is absent, although the row was there when current_version was read,
\* fails with ConfigNotFound and inserts no version row: it does not report
\* success with a version that has no configuration row.
C27_UpdateOfVanishedName ==
    [][ \A p \in Procs :
          (Returns(p) /\ req[p].op = "update" /\ pc[p] # "update_select"
              /\ ConfigurationRows(ViewConfigurations(p), req[p].name) = {}) =>
              /\ result'[p].err = "ConfigNotFound"
              /\ versions' = versions
      ]_vars

\* C28: a read of the latest configuration of a name whose configuration row
\* exists while no version row is numbered its current_version signals an
\* internal error, answered 500, and not ConfigNotFound (404).
C28_LatestWithoutVersion ==
    [][ ops' # ops =>
          \A p \in Procs :
              (GetLatestConfig(p, "app")
                  /\ ConfigurationRows(configurations, "app") # {}
                  /\ VersionRows(versions, "app",
                                 CurrentVersionOf(configurations, "app")) = {}) =>
                  /\ result'[p].err \notin {"", "ConfigNotFound"}
                  /\ result'[p].status = 500
      ]_vars

\* C29: a successful update or rollback changes, in the configuration row of
\* its name, only current_version and updated_at, which become the new version
\* number and the time of the request; every other configuration row stays as
\* it is.  No step, in the committed table or in a transaction, changes the
\* name or the created_at of a configuration row: they keep the values the
\* create set.
C29_UpdateFrame ==
    [][ /\ \A p \in Procs :
              (Succeeds(p) /\ req[p].op \in {"update", "rollback"}) =>
                  /\ ConfigurationRows(configurations, req[p].name) # {}
                  /\ configurations' =
                         {IF c.name = req[p].name
                          THEN [c EXCEPT !.current_version = NewVersion(p),
                                         !.updated_at = loc[p].now]
                          ELSE c : c \in configurations}
        /\ \A c \in configurations :
              \E d \in configurations' : d.name = c.name /\ d.created_at = c.created_at
        /\ \A c \in txConfigurations :
              \A d \in txConfigurations' : d.name = c.name => d.created_at = c.created_at
      ]_vars

\* C29 witness: a configuration created at time 1 has been updated and rolled
\* back, the last time at time 2: its row has current_version 3, created_at 1
\* and updated_at 2.
C29_Witness ==
    \E p, q \in Procs, n \in Names :
        /\ result[p].op = "update" /\ result[p].err = ""
        /\ result[q].op = "rollback" /\ result[q].err = ""
        /\ ConfigurationRows(configurations, n) = {Configuration(n, 3, 1, 2)}

\* C30: the Configuration a successful create, update or rollback returns is
\* the configuration row of its name as committed by the operation: same
\* name, current_version, created_at and updated_at.
C30_ReturnedEqualsStored ==
    [][ \A p \in Procs :
          (Succeeds(p) /\ req[p].op \in {"create", "update", "rollback"}) =>
              ConfigurationRows(configurations', req[p].name) = {result'[p].config}
      ]_vars

\* p's update is past its SELECT current_version and the value it read is no
\* longer the committed current_version of its name
StaleUpdate(p) ==
    /\ req[p].op = "update"
    /\ InUpdateTx(p)
    /\ loc[p].currentVersion # CurrentVersionOf(configurations, req[p].name)

\* C31: under every interleaving of updates and rollbacks (and creates) of a
\* name, the committed current_version never decreases, no two committed
\* version rows share (name, version_number), and the committed version
\* numbers of a name are exactly 1..current_version; an update that computed
\* its new version from a stale current_version writes nothing, fails when it
\* returns and leaves both committed tables as they are.
C31_StaleUpdateCommitsNothing ==
    [][ /\ \A n \in Names :
              /\ CurrentVersionOf(configurations', n) >= CurrentVersionOf(configurations, n)
              /\ VersionNumbers(versions', n) = 1..CurrentVersionOf(configurations', n)
        /\ \A n \in Names :
              \A v \in VersionNumbers(versions', n) :
                  Cardinality(VersionRows(versions', n, v)) = 1
        /\ \A p \in Procs :
              StaleUpdate(p) =>
                  /\ lock[p] # "reserved"
                  /\ pc[p] = "update_insert_version"
                  /\ pc'[p] # pc[p] =>
                        /\ Returns(p)
                        /\ result'[p].err = "failed to insert new version"
                        /\ result'[p].status = 500
                        /\ UNCHANGED <<configurations, versions>>
      ]_vars

\* C31 witness: the one configuration there is was created, an update read
\* its current_version, a rollback then committed version 2, and the update
\* has failed on its insert.
C31_Witness ==
    \E p, q \in Procs :
        /\ p # q
        /\ result[p].op = "update"
        /\ result[p].err = "failed to insert new version"
        /\ result[q].op = "rollback"
        /\ result[q].err = ""
        /\ result[q].config.current_version = 2
        /\ Cardinality(configurations) = 1
        /\ \A c \in configurations :
               c.current_version = 2 /\ VersionNumbers(versions, c.name) = 1..2

\* C32: round trip.  A GetLatestConfig of a name that has a configuration, and
\* a GetConfigVersion of a committed version, succeed and return the
\* max_limit and enabled of the stored payload (which create and update store
\* only after the validator accepted it); no read ends in the parse error.
C32_RoundTrip ==
    [][ /\ \A p \in Procs : result'[p].err # "failed to parse configuration data"
        /\ ops' # ops =>
              \A p \in Procs :
                  /\ (GetLatestConfig(p, "app") /\ ConfigurationRows(configurations, "app") # {}) =>
                         LET d == DataOf(versions, "app", CurrentVersionOf(configurations, "app"))
                         IN /\ result'[p].err = ""
                            /\ result'[p].body.config_data =
                                   [max_limit |-> Member(d, "max_limit").num,
                                    enabled |-> Member(d, "enabled").bool]
                  /\ \A v \in VersionNumbers(versions, "app") :
                         ServiceGetConfigVersion(p, "app", v) =>
                             /\ result'[p].err = ""
                             /\ result'[p].body.config_data =
                                    [max_limit |-> Member(DataOf(versions, "app", v), "max_limit").num,
                                     enabled |-> Member(DataOf(versions, "app", v), "enabled").bool]
      ]_vars

\* C33: RollbackConfiguration never returns ConfigNotFound.  In every
\* reachable state, committed or inside the writer's transaction, a version
\* row exists only for a name that has a configuration row; so a rollback
\* that found its target version finds the configuration row, and a rollback
\* of a name without a configuration row returns VersionNotFound (404).
C33_RollbackNeverConfigNotFound ==
    [][ /\ \A r \in versions' : ConfigurationRows(configurations', r.configuration_name) # {}
        /\ \A r \in txVersions' : ConfigurationRows(txConfigurations', r.configuration_name) # {}
        /\ \A p \in Procs :
              req[p].op = "rollback" =>
                  /\ pc'[p] = "rollback_select_configuration" =>
                         ConfigurationRows(ViewConfigurations(p), req[p].name) # {}
                  /\ Returns(p) => result'[p].err # "ConfigNotFound"
                  /\ (Returns(p) /\ ConfigurationRows(ViewConfigurations(p), req[p].name) = {}) =>
                         /\ pc[p] = "rollback_select_version"
                         /\ result'[p].err = "VersionNotFound"
                         /\ result'[p].status = 404
                         /\ result'[p].code = "VERSION_NOT_FOUND"
      ]_vars

\* C33 witness: a rollback was answered VersionNotFound and no configuration
\* row is committed, while the other request has inserted a configuration
\* and its version 1 in a transaction it has not committed.
C33_Witness ==
    \E p, q \in Procs :
        /\ result[p].op = "rollback"
        /\ result[p].err = "VersionNotFound"
        /\ configurations = {}
        /\ pc[q] = "create_commit"
        /\ txVersions # {}

\* the rows of name n, committed and in the writer's transaction
RowsOf(cfgs, vers, n) == <<ConfigurationRows(cfgs, n), VersionsOf(vers, n)>>

\* C34: operations on one name never affect another.  The configuration row
\* and the version rows of a name B, committed or in the writer's
\* transaction, change only in a step of a create, update or rollback of B;
\* every step of an operation on A, failing or not, leaves the rows of each
\* B # A as they are; and a successful update or rollback of B advances B's
\* own current_version by one, whatever happened to other names.
C34_OtherNamesUntouched ==
    [][ /\ \A B \in Names :
              (\/ RowsOf(configurations', versions', B) # RowsOf(configurations, versions, B)
               \/ RowsOf(txConfigurations', txVersions', B)
                      # RowsOf(txConfigurations, txVersions, B)) =>
                  \E p \in Procs :
                      /\ pc[p] # "idle" /\ pc'[p] # pc[p]
                      /\ req[p].name = B
                      /\ req[p].op \in {"create", "update", "rollback"}
        /\ \A p \in Procs :
              (pc[p] # "idle" /\ pc'[p] # pc[p]) =>
                  \A B \in Names \ {req[p].name} :
                      /\ RowsOf(configurations', versions', B) = RowsOf(configurations, versions, B)
                      /\ RowsOf(txConfigurations', txVersions', B)
                             = RowsOf(txConfigurations, txVersions, B)
        /\ \A p \in Procs :
              (Succeeds(p) /\ req[p].op \in {"update", "rollback"}) =>
                  /\ result'[p].config.current_version
                         = CurrentVersionOf(configurations, req[p].name) + 1
                  /\ CurrentVersionOf(configurations', req[p].name)
                         = CurrentVersionOf(configurations, req[p].name) + 1
      ]_vars

\* C34 witness: after both names were created and "app" was updated, an update
\* of "web" returned version 2, and "app" still has its versions 1..2.
C34_Witness ==
    \E p \in Procs :
        /\ result[p].op = "update"
        /\ result[p].err = ""
        /\ result[p].config.name = "web"
        /\ result[p].config.current_version = 2
        /\ CurrentVersionOf(configurations, "app") = 2
        /\ VersionNumbers(versions, "app") = 1..2
        /\ VersionNumbers(versions, "web") = 1..2

\* p's connection has a transaction open: it holds a lock
TxOpen(p) == lock[p] # "none"

\* C35: every create, update and rollback ends its transaction on every
\* path.  A request that has returned holds no lock, so only a request still
\* running can make a statement or a Commit of another one wait; the step in
\* which an operation returns successfully is its Commit, which makes its
\* writes the committed tables; the step in which it returns an error drops
\* its writes; and once no transaction is open the tables a new transaction
\* starts from are the committed ones.
C35_TransactionTerminated ==
    [][ /\ \A p \in Procs :
              /\ pc'[p] = "idle" => ~TxOpen(p)'
              /\ (Returns(p) /\ TxOpen(p)) =>
                     IF result'[p].err = ""
                     THEN /\ configurations' = ViewConfigurations(p)
                          /\ versions' = ViewVersions(p)
                          /\ pc[p] \in {"create_commit", "update_commit", "rollback_commit"}
                     ELSE /\ configurations' = configurations
                          /\ versions' = versions
              /\ (~CanWrite(p)' \/ ~CanCommit(p)') =>
                     \E q \in Procs \ {p} : pc'[q] # "idle" /\ TxOpen(q)'
        /\ (\A p \in Procs : ~TxOpen(p)') =>
               (txConfigurations' = configurations' /\ txVersions' = versions')
      ]_vars

\* C35 witness: a create failed at its Commit, after both its inserts, and the
\* other request's create of the same name has committed since; no lock is
\* held.
C35_Witness ==
    \E p, q \in Procs :
        /\ result[p].op = "create"
        /\ result[p].err = "failed to commit transaction"
        /\ result[q].op = "create"
        /\ result[q].err = ""
        /\ result[q].config.name = "app"
        /\ CurrentVersionOf(configurations, "app") >= 1
        /\ \A r \in Procs : ~TxOpen(r)

\* C36: through the handlers the service's own check of the version number is
\* never reached.  A rollback or a read of a version below 1 is answered 400
\* by the handler in a step that is not a step of the service; no rollback
\* with a target below 1 enters the service; and no request is ever answered
\* with the service's untyped INVALID_VERSION_NUMBER error, which handleError
\* would answer 500.
C36_ServiceCheckUnreached ==
    [][ /\ ops = 0 =>
              handleError(InvalidVersionNumber) =
                  [status |-> 500, code |-> "INTERNAL_SERVER_ERROR"]
        /\ \A p \in Procs :
              /\ result'[p].err # InvalidVersionNumber
              /\ result'[p].err = "InvalidVersionNumber" => result'[p].status = 400
              /\ req'[p].op = "rollback" => req'[p].target >= 1
        /\ ops' # ops =>
              \A p \in Procs, n \in {"app", "web"}, v \in {-1, 0} :
                  /\ RollbackConfig(p, n, v) =>
                         (~ServiceRollbackConfig(p, n, v) /\ result'[p].status = 400)
                  /\ GetConfigVersion(p, n, v) =>
                         (~ServiceGetConfigVersion(p, n, v) /\ result'[p].status = 400)
      ]_vars

\* C36 witness: a rollback to version 0 of an existing configuration was
\* answered 400 by the handler, and a read of version 1 went through the
\* service and was answered 200.
C36_Witness ==
    \E p, q \in Procs :
        /\ result[p].op = "rollback"
        /\ result[p].err = "InvalidVersionNumber"
        /\ result[p].code = "INVALID_VERSION_NUMBER"
        /\ result[q].op = "get_version"
        /\ result[q].err = ""
        /\ result[q].body.version = 1
        /\ configurations # {}

====
